---- MODULE Spec2Model ----
(***************************************************************************)
(* Model of the catalog preview / export pipeline of CatalogoVG2:          *)
(* the App component (product list, pagination, settings), the             *)
(* CatalogPreview component (export modal, off-screen "ghost" surface,     *)
(* performExport) and the api service it calls.                            *)
(*                                                                         *)
(* The repository holds two builds of CatalogPreview: the one with the     *)
(* pixel-sized ghost surface (unnamed/part_002) and the earlier one        *)
(* (components/CatalogPreview.tsx).  The variable `build` says which one   *)
(* is mounted; it never changes during a behaviour.                        *)
(*                                                                         *)
(* Text is a sequence of one-character strings; numbers that the range     *)
(* parser produces are kept exactly, as integers in units of 1/Scale.      *)
(***************************************************************************)
EXTENDS Integers, Sequences, FiniteSets, TLC

\* ------------------------------------------------------------------ bounds
MaxLen == 3          \* longest customRange text the resolver specification draws
MaxTotalPages == 3   \* largest totalPages the resolver specification draws
MaxProducts == 3     \* largest number of rows in the products table
MaxGrid == 2         \* largest gridCols the settings hold (gridRows is 1..MaxRows)
MaxRows == 1         \* largest gridRows the settings hold
MaxUserActs == 2     \* most clicks on controls other than Iniciar Exportacao
MaxTokens == 2       \* most comma-separated tokens the token specification joins
MaxInt == 4          \* largest integer a token of the token specification spells
MaxExportPages == 40 \* most pages the progress specification exports
MaxInFlight == 2     \* most listing requests and responses on their way at once
MaxBatch == 3        \* most rows in a batch import request

\* ------------------------------------------------------------------ text
Digits == {"0", "1", "2", "3", "4", "5", "6", "7", "8", "9"}

\* The characters customRange texts are drawn from: two digits, zero, the two
\* separators, blank, the decimal point and a letter.
Alphabet == {"0", "1", "2", "-", ",", " ", ".", "a"}

RECURSIVE Pow10(_)
Pow10(n) == IF n = 0 THEN 1 ELSE 10 * Pow10(n - 1)

\* One page, in the units numbers are kept in: enough decimal places for every
\* fraction a text of the drawn length can spell.
Scale == Pow10(MaxLen)

DigitVal(c) ==
    CASE c = "0" -> 0 [] c = "1" -> 1 [] c = "2" -> 2 [] c = "3" -> 3 [] c = "4" -> 4
      [] c = "5" -> 5 [] c = "6" -> 6 [] c = "7" -> 7 [] c = "8" -> 8 [] c = "9" -> 9

RECURSIVE TrimLeft(_)
TrimLeft(s) == IF s # <<>> /\ Head(s) = " " THEN TrimLeft(Tail(s)) ELSE s

RECURSIVE TrimRight(_)
TrimRight(s) ==
    IF s # <<>> /\ s[Len(s)] = " " THEN TrimRight(SubSeq(s, 1, Len(s) - 1)) ELSE s

\* String.prototype.trim
Trim(s) == TrimRight(TrimLeft(s))

\* String.prototype.includes, for a one-character needle
Includes(s, ch) == \E k \in 1..Len(s) : s[k] = ch

\* String.prototype.split, for a one-character separator: always at least one
\* piece, "" splits into [""].
RECURSIVE SplitFrom(_, _, _)
SplitFrom(s, sep, cur) ==
    IF s = <<>> THEN <<cur>>
    ELSE IF Head(s) = sep THEN <<cur>> \o SplitFrom(Tail(s), sep, <<>>)
    ELSE SplitFrom(Tail(s), sep, Append(cur, Head(s)))

Split(s, sep) == SplitFrom(s, sep, <<>>)

\* A JavaScript number: NaN or an exact value in units of 1/Scale.
NaN == [nan |-> TRUE, v |-> 0]
Num(v) == [nan |-> FALSE, v |-> v]

RECURSIVE DigitsValue(_, _)
DigitsValue(s, acc) ==
    IF s = <<>> THEN acc ELSE DigitsValue(Tail(s), 10 * acc + DigitVal(Head(s)))

\* The value of an unsigned decimal literal: digits, digits "." digits?, "." digits
UnsignedLiteral(t) ==
    LET dots == {k \in 1..Len(t) : t[k] = "."}
        allOk == \A k \in 1..Len(t) : t[k] \in Digits \cup {"."}
    IN  IF ~allOk \/ Cardinality(dots) > 1 \/ Len(t) = Cardinality(dots) THEN NaN
        ELSE IF dots = {} THEN Num(DigitsValue(t, 0) * Scale)
        ELSE LET d == CHOOSE k \in dots : TRUE
                 ip == SubSeq(t, 1, d - 1)
                 fp == SubSeq(t, d + 1, Len(t))
             IN  Num(DigitsValue(ip, 0) * Scale
                     + (DigitsValue(fp, 0) * Scale) \div Pow10(Len(fp)))

\* Number(string): blanks are trimmed, the empty text is 0, a sign may lead, and
\* anything that is not a decimal literal is NaN.
Number(s) ==
    LET t == Trim(s)
    IN  IF t = <<>> THEN Num(0)
        ELSE IF Head(t) = "-"
             THEN LET u == UnsignedLiteral(Tail(t))
                  IN  IF u.nan THEN NaN ELSE Num(0 - u.v)
        ELSE UnsignedLiteral(t)

\* Relational operators of JavaScript numbers: every comparison with NaN is false.
Le(a, b) == ~a.nan /\ ~b.nan /\ a.v <= b.v
Gt(a, b) == ~a.nan /\ ~b.nan /\ a.v > b.v

\* [...new Set(xs)].sort((a,b) => a-b): the distinct values, ascending
RECURSIVE SortedSeq(_)
SortedSeq(S) ==
    IF S = {} THEN <<>>
    ELSE LET m == CHOOSE x \in S : \A y \in S : x <= y
         IN  <<m>> \o SortedSeq(S \ {m})

Range(s) == {s[k] : k \in 1..Len(s)}

\* the pushed pages as they were pushed, neither sorted nor made unique
AsPushed(xs) == xs

SortUnique(xs) == SortedSeq(Range(xs))

RECURSIVE Concat(_)
Concat(ss) == IF ss = <<>> THEN <<>> ELSE Head(ss) \o Concat(Tail(ss))

\* ------------------------------------------------- page-range resolution
\* a loop that stops before e: for (let i = s; i < e; i++)
RECURSIVE HalfOpenLoop(_, _, _)
HalfOpenLoop(i, e, totalPages) ==
    IF Le(i, e) /\ i.v # e.v
    THEN (IF Gt(i, Num(0)) /\ Le(i, Num(totalPages * Scale)) THEN <<i.v>> ELSE <<>>)
         \o HalfOpenLoop(Num(i.v + Scale), e, totalPages)
    ELSE <<>>

\* for (let i = s; i <= e; i++) if (i > 0 && i <= totalPages) pagesToExport.push(i)
RECURSIVE RangeLoop(_, _, _)
RangeLoop(i, e, totalPages) ==
    IF Le(i, e)
    THEN (IF Gt(i, Num(0)) /\ Le(i, Num(totalPages * Scale)) THEN <<i.v>> ELSE <<>>)
         \o RangeLoop(Num(i.v + Scale), e, totalPages)
    ELSE <<>>

\* What one comma-separated token pushes, in the ghost build
TokenPages(p, totalPages) ==
    IF Trim(p) = <<>> THEN <<>>
    ELSE IF Includes(p, "-")
    THEN LET parts == Split(p, "-")
             s == Number(parts[1])
             e == Number(parts[2])
         IN  IF ~s.nan /\ ~e.nan THEN RangeLoop(s, e, totalPages) ELSE <<>>
    ELSE LET n == Number(p)
         IN  IF Gt(n, Num(0)) /\ Le(n, Num(totalPages * Scale)) THEN <<n.v>> ELSE <<>>

\* What one comma-separated token pushes, in the earlier build: no blank test
\* and no NaN test, the loop's comparisons do the work.
LegacyTokenPages(p, totalPages) ==
    IF Includes(p, "-")
    THEN LET parts == Split(p, "-")
         IN  RangeLoop(Number(parts[1]), Number(parts[2]), totalPages)
    ELSE LET n == Number(p)
         IN  IF Gt(n, Num(0)) /\ Le(n, Num(totalPages * Scale)) THEN <<n.v>> ELSE <<>>

\* The pages the request selects, before the empty-list rule, sorted and
\* without duplicates.
SelectedPages(bld, range, customRange, totalPages, curPage) ==
    LET pushed ==
          IF range = "current" THEN <<curPage * Scale>>
          ELSE IF range = "all" THEN [k \in 1..totalPages |-> k * Scale]
          ELSE LET parts == Split(customRange, ",")
               IN  Concat([k \in 1..Len(parts) |->
                              IF bld = "legacy"
                              THEN LegacyTokenPages(parts[k], totalPages)
                              ELSE TokenPages(parts[k], totalPages)])
    IN  SortUnique(pushed)

\* The empty-list rule: the ghost build falls back to the current page, the
\* earlier build throws "Nenhuma pagina selecionada."
ResolvePages(bld, range, customRange, totalPages, curPage) ==
    LET sel == SelectedPages(bld, range, customRange, totalPages, curPage)
    IN  IF sel # <<>> THEN [threw |-> FALSE, pages |-> sel]
        ELSE IF bld = "legacy" THEN [threw |-> TRUE, pages |-> <<>>]
        ELSE [threw |-> FALSE, pages |-> <<curPage * Scale>>]

Builds == {"ghost", "legacy"}
RangeModes == {"current", "all", "custom"}
Texts == UNION {[1..n -> Alphabet] : n \in 0..MaxLen}

\* ------------------------------------------------------------ the server
\* GET /api/products: one page of the table, newest first, and the counts.
\* Math.ceil(totalCount / limit)
CeilDiv(a, b) == (a + b - 1) \div b

ListProducts(table, page, limit) ==
    LET offset == (page - 1) * limit
        n == Len(table)
        from == IF offset < n THEN offset + 1 ELSE n + 1
        to == IF offset + limit < n THEN offset + limit ELSE n
    IN  [products |-> SubSeq(table, from, to),
         totalCount |-> n,
         currentPage |-> page,
         totalPages |-> CeilDiv(n, limit)]

\* ------------------------------------------------------------ api service
\* MOCK_PRODUCTS: three sample rows, none with an image
MOCK_PRODUCTS == <<-1, -2, -3>>

\* the limit fetchAllProducts asks for
FetchAllLimit == 9999

\* fetchProducts: the server's page, or the mock response when the request fails
fetchProducts(table, page, limit, ok) ==
    IF ok THEN ListProducts(table, page, limit)
    ELSE [products |-> MOCK_PRODUCTS, totalCount |-> Len(MOCK_PRODUCTS),
          currentPage |-> 1, totalPages |-> 1]

\* fetchAllProducts: every row, or MOCK_PRODUCTS when the request fails; it
\* never throws.
fetchAllProducts(table, ok) ==
    IF ok THEN ListProducts(table, 1, FetchAllLimit).products ELSE MOCK_PRODUCTS

\* getImageUrl: rows with an imageName carry an image; here the first two
\* rows of the table do.
HasImage(id) == id = 1 \/ id = 2

\* ------------------------------------------------------------------ state
VARIABLES
    build,           \* which CatalogPreview is mounted: "ghost" or "legacy"
    db,              \* the products table, in the server's order
    products,        \* App: the loaded page of products
    totalCount,      \* App: the count the last response reported
    currentPage,     \* App: the page shown
    gridCols,        \* App: settings.gridCols
    gridRows,        \* App: settings.gridRows
    userActs,        \* clicks made so far on controls other than Iniciar Exportacao
    loads,           \* loadProducts requests in flight, as [page, limit]
    effDeps,         \* the dependencies the loadProducts effect last ran with
    dirty,           \* a state update made outside an event handler awaits its render
    showExportModal, \* CatalogPreview state
    isExporting,
    exportProgress,
    exportOpts,      \* [format, range, customRange]
    ghostPageData,   \* [products, pageNum], pageNum in units of 1/Scale
    ghostDom,        \* what the off-screen surface shows: the last committed render
    domImgs,         \* the surface's <img> elements: id -> loading / loaded / failed
    elem,            \* the .a4-page element performExport holds, with its images
    run,             \* the locals of the performExport call in flight
    running,         \* how many performExport calls are in flight
    rasterizing,     \* the page numbers html2canvas is working on
    pdf,             \* the jsPDF document: a sequence of pages, each the images drawn on it
    pdfSaved,        \* pdf.save was called in the latest export
    pngFiles,        \* the PNG downloads of the latest export
    alerts,          \* the error dialogs of the latest export
    rsIn, rsOut      \* the request and the result of the specifications of pure steps

appVars == <<db, products, totalCount, currentPage, gridCols, gridRows,
             loads, effDeps>>
previewVars == <<showExportModal, isExporting, exportProgress, exportOpts, ghostPageData>>
domVars == <<ghostDom, domImgs, elem>>
runVars == <<run, running, rasterizing>>
outVars == <<pdf, pdfSaved, pngFiles, alerts>>
mainVars == <<build, userActs, appVars, dirty, previewVars, domVars, runVars, outVars>>
rsVars == <<rsIn, rsOut>>
vars == <<mainVars, rsVars>>

\* the texts the user types into the range field in the main specification
TypedRanges == {<<>>, <<"2", "-", "3">>, <<"2", ",", "1">>}

\* const itemsPerPage = settings.gridCols * settings.gridRows
itemsPerPage == gridCols * gridRows

\* totalPages={Math.ceil(totalCount / itemsPerPage) || 1}
totalPages == IF CeilDiv(totalCount, itemsPerPage) = 0 THEN 1
              ELSE CeilDiv(totalCount, itemsPerPage)

\* ------------------------------------------------------ rendering helpers
\* Array.prototype.slice with bounds given in units of 1/Scale: a bound is
\* truncated toward zero, a negative one counts from the end.
TruncDiv(a, b) == IF a >= 0 THEN a \div b ELSE 0 - ((0 - a) \div b)

SliceIndex(rel, n) ==
    IF rel < 0 THEN (IF n + rel < 0 THEN 0 ELSE n + rel)
    ELSE IF rel > n THEN n ELSE rel

Slice(xs, start, end) ==
    LET k == SliceIndex(TruncDiv(start, Scale), Len(xs))
        f == SliceIndex(TruncDiv(end, Scale), Len(xs))
    IN  SubSeq(xs, k + 1, f)

\* const start = (pNum - 1) * itemsPerPage; const end = start + itemsPerPage;
\* allProducts.slice(start, end)
PageProducts(allProducts, pNum, ipp) ==
    Slice(allProducts, (pNum - Scale) * ipp, (pNum - Scale) * ipp + ipp * Scale)

\* ------------------------------------------------- Number arithmetic
\* i / n and x * 100 are operations on IEEE 754 doubles.  A positive double
\* is kept as [a, b, c, e]: its 53-bit significand in three limbs, a the top
\* 17 bits (the first one a 1), b and c 18 bits each, and e the exponent of
\* its last bit, so that its value is (a * 2^36 + b * 2^18 + c) * 2^e; zero
\* has a = 0.  Each operation rounds its exact result to the nearest double,
\* a tie going to the even significand.
LimbBits == 18
Limb == 2^LimbBits
TopBits == 17
SignificandBits == TopBits + 2 * LimbBits
Zero == [a |-> 0, b |-> 0, c |-> 0, e |-> 0]

\* the significand plus one, renormalised when it reaches 2^53
Inc(x) ==
    IF x.c + 1 < Limb THEN [x EXCEPT !.c = x.c + 1]
    ELSE IF x.b + 1 < Limb THEN [x EXCEPT !.c = 0, !.b = x.b + 1]
    ELSE IF x.a + 1 < 2^TopBits THEN [x EXCEPT !.c = 0, !.b = 0, !.a = x.a + 1]
    ELSE [a |-> 2^(TopBits - 1), b |-> 0, c |-> 0, e |-> x.e + 1]

\* round to nearest, ties to even: guard is the first bit dropped, sticky
\* tells whether a later one is set
RoundToDouble(x, guard, sticky) ==
    IF guard = 1 /\ (sticky \/ x.c % 2 = 1) THEN Inc(x) ELSE x

\* the zeros that open the binary expansion of r / n, 0 < r < n
RECURSIVE LeadingZeros(_, _)
LeadingZeros(r, n) == IF 2 * r >= n THEN 0 ELSE 1 + LeadingZeros(2 * r, n)

\* i / n for integers 0 <= i < n < 2^7: long division, limb by limb, from the
\* first 1 of the expansion on; then one more bit, and what is left
Divide(i, n) ==
    IF i = 0 THEN Zero
    ELSE LET z == LeadingZeros(i, n)
             r0 == i * 2^z
             a == (r0 * 2^TopBits) \div n
             r1 == (r0 * 2^TopBits) % n
             b == (r1 * Limb) \div n
             r2 == (r1 * Limb) % n
             c == (r2 * Limb) \div n
             r3 == (r2 * Limb) % n
         IN  RoundToDouble([a |-> a, b |-> b, c |-> c, e |-> 0 - z - SignificandBits],
                           (2 * r3) \div n, (2 * r3) % n # 0)

\* x * k for an integer 0 < k <= 2^7: the exact product, limb by limb with
\* carry, then shifted right by the s bits it has beyond 53 and rounded
Times(x, k) ==
    IF x.a = 0 THEN Zero
    ELSE LET pc == x.c * k
             pb == x.b * k + pc \div Limb
             pa == x.a * k + pb \div Limb
             lb == pb % Limb
             lc == pc % Limb
             s == CHOOSE t \in 0..7 : 2^(TopBits - 1) <= pa \div 2^t /\ pa \div 2^t < 2^TopBits
             y == [a |-> pa \div 2^s,
                   b |-> (pa % 2^s) * 2^(LimbBits - s) + lb \div 2^s,
                   c |-> (lb % 2^s) * 2^(LimbBits - s) + lc \div 2^s,
                   e |-> x.e + s]
         IN  IF s = 0 THEN y
             ELSE RoundToDouble(y, (lc \div 2^(s - 1)) % 2, lc % 2^(s - 1) # 0)

\* Math.round(x) for 0 <= x < 2^16: the nearest integer, a half going up
MathRound(x) ==
    LET ib == SignificandBits + x.e
    IN  IF x.a = 0 \/ ib < 0 THEN 0
        ELSE (x.a \div 2^(TopBits - ib)) + ((x.a \div 2^(TopBits - ib - 1)) % 2)

\* Math.round((i / pagesToExport.length) * 100)
Progress(i, n) == MathRound(Times(Divide(i, n), 100))

\* <PageContent items={ghostPageData.products} pNum={ghostPageData.pageNum} />
\* under the settings of the render
RenderGhost(gpd, cols, rows) ==
    [products |-> gpd.products, pageNum |-> gpd.pageNum, cols |-> cols, rows |-> rows,
     style |-> "rendered"]

\* const localEmptySlots = Math.max(0, itemsPerPage - items.length)
localEmptySlots(items, ipp) == IF ipp - Len(items) > 0 THEN ipp - Len(items) ELSE 0

\* the <img> elements a fresh mount of the page creates, all still loading
FreshImgs(prods) == [id \in {x \in Range(prods) : HasImage(x)} |-> "loading"]

Loading(imgs) == {id \in DOMAIN imgs : imgs[id] = "loading"}

IdleRun == [pc |-> "idle", pages |-> <<>>, i |-> 0, allProducts |-> <<>>,
            ipp |-> 0, format |-> "pdf", shot |-> <<>>]

\* ---------------------------------------------------------------- Init
GridCols == 1..MaxGrid
GridRows == 1..MaxRows
Formats == {"pdf", "png"}
NoElem == [shows |-> <<>>, imgs |-> <<>>, attached |-> FALSE]

\* A settled application: settings and the current page of products loaded,
\* nothing in flight, no export made yet, the export modal open with some
\* request chosen in it.
Init ==
    /\ build \in Builds
    /\ userActs = 0
    /\ db \in {[k \in 1..n |-> k] : n \in 0..MaxProducts}
    /\ gridCols \in GridCols
    /\ gridRows \in GridRows
    /\ totalCount = Len(db)
    /\ currentPage \in 1..totalPages
    /\ products = ListProducts(db, currentPage, itemsPerPage).products
    /\ loads = {}
    /\ effDeps = <<currentPage, itemsPerPage>>
    /\ dirty = FALSE
    /\ showExportModal = TRUE
    /\ isExporting = FALSE
    /\ exportProgress = 0
    /\ exportOpts \in [format : Formats, range : RangeModes, customRange : TypedRanges]
    /\ exportOpts.range # "custom" => exportOpts.customRange = <<>>
    /\ ghostPageData = [products |-> <<>>, pageNum |-> Scale]
    /\ ghostDom = RenderGhost(ghostPageData, gridCols, gridRows)
    /\ domImgs = <<>>
    /\ elem = NoElem
    /\ run = IdleRun
    /\ running = 0
    /\ rasterizing = {}
    /\ pdf = <<>>
    /\ pdfSaved = FALSE
    /\ pngFiles = <<>>
    /\ alerts = 0
    /\ rsIn = [build |-> "ghost", range |-> "current", customRange |-> <<>>,
               totalPages |-> 1, currentPage |-> 1]
    /\ rsOut = [done |-> TRUE, threw |-> FALSE, pages |-> <<>>]

\* ------------------------------------------------------------ React commit
\* A render of App and CatalogPreview.  PageContent is declared inside
\* CatalogPreview, so every render mounts a new .a4-page with new <img>
\* elements, and the element performExport holds is no longer in the document.
\* The loadProducts effect runs when currentPage or itemsPerPage changed.
CommitNow ==
    LET deps == <<currentPage', gridCols' * gridRows'>>
    IN  /\ ghostDom' = RenderGhost(ghostPageData', gridCols', gridRows')
        /\ domImgs' = FreshImgs(ghostPageData'.products)
        /\ elem' = [elem EXCEPT !.attached = FALSE]
        /\ loads' = IF deps # effDeps
                    THEN loads \cup {[page |-> deps[1], limit |-> deps[2]]}
                    ELSE loads
        /\ effDeps' = deps
        /\ dirty' = FALSE

\* the render of updates made after an await (performExport's continuation,
\* loadProducts, loadSettings, handleSaveSettings)
ReactCommit ==
    /\ dirty
    /\ UNCHANGED <<build, db, products, totalCount, currentPage, gridCols, gridRows,
                   userActs, previewVars, runVars, outVars, rsVars>>
    /\ CommitNow

\* a click on a control other than Iniciar Exportacao
Click == userActs < MaxUserActs /\ userActs' = userActs + 1

\* ------------------------------------------------------------------- App
\* loadProducts, from the response on
LoadReturns(req, ok) ==
    /\ req \in loads
    /\ LET res == fetchProducts(db, req.page, req.limit, ok)
       IN  /\ products' = res.products
           /\ totalCount' = res.totalCount
           /\ currentPage' = IF res.currentPage > res.totalPages /\ res.totalPages > 0
                             THEN res.totalPages ELSE currentPage
    /\ loads' = loads \ {req}
    /\ dirty' = TRUE
    /\ UNCHANGED <<build, db, gridCols, gridRows, userActs, effDeps,
                   previewVars, domVars, runVars, outVars, rsVars>>

\* handleSaveSettings, from the saveSettings response on
SaveSettings(cols, rows) ==
    /\ ~dirty
    /\ Click
    /\ gridCols' = cols
    /\ gridRows' = rows
    /\ currentPage' = 1
    /\ dirty' = TRUE
    /\ UNCHANGED <<build, db, products, totalCount, loads, effDeps,
                   previewVars, domVars, runVars, outVars, rsVars>>

\* the previous / next buttons of the preview toolbar: onPageChange(currentPage -+ 1)
PreviewPageChange(d) ==
    /\ ~dirty
    /\ Click
    /\ ~showExportModal
    /\ IF d = 1 THEN currentPage < totalPages ELSE currentPage > 1
    /\ currentPage' = currentPage + d
    /\ UNCHANGED <<build, db, products, totalCount, gridCols, gridRows,
                   previewVars, runVars, outVars, rsVars>>
    /\ CommitNow

\* ------------------------------------------------- CatalogPreview: modal
\* the toolbar's Exportar button
OpenExportModal ==
    /\ ~dirty
    /\ Click
    /\ ~showExportModal
    /\ showExportModal' = TRUE
    /\ UNCHANGED <<build, db, products, totalCount, currentPage, gridCols, gridRows,
                   isExporting, exportProgress, exportOpts,
                   ghostPageData, runVars, outVars, rsVars>>
    /\ CommitNow

\* Cancelar is disabled={isExporting} in the earlier build only
CancelEnabled == build = "legacy" => ~isExporting

CancelExportModal ==
    /\ ~dirty
    /\ Click
    /\ showExportModal
    /\ CancelEnabled
    /\ showExportModal' = FALSE
    /\ UNCHANGED <<build, db, products, totalCount, currentPage, gridCols, gridRows,
                   isExporting, exportProgress, exportOpts,
                   ghostPageData, runVars, outVars, rsVars>>
    /\ CommitNow

\* the controls of the modal: the range radios, the range text, the format select
SetExportOpts(opts) ==
    /\ ~dirty
    /\ Click
    /\ showExportModal
    /\ opts # exportOpts
    /\ exportOpts' = opts
    /\ UNCHANGED <<build, db, products, totalCount, currentPage, gridCols, gridRows,
                   showExportModal, isExporting, exportProgress,
                   ghostPageData, runVars, outVars, rsVars>>
    /\ CommitNow

ChooseRange(m) == SetExportOpts([exportOpts EXCEPT !.range = m])

TypeRange(t) ==
    /\ exportOpts.range = "custom"
    /\ SetExportOpts([exportOpts EXCEPT !.customRange = t, !.range = "custom"])

ChooseFormat(f) == SetExportOpts([exportOpts EXCEPT !.format = f])

\* ------------------------------------------------ CatalogPreview: export
\* a start button that is never disabled
StartAlways == TRUE

\* Iniciar Exportacao is disabled={isExporting}
StartEnabled == ~isExporting

\* a test that looks at the number of pages only
MoreThanOnePage(pages, curPage) == Len(pages) > 1

\* if (pagesToExport.length > 1 || (pagesToExport[0] !== currentPage))
NeedFullList(pages, curPage) == Len(pages) > 1 \/ pages[1] # curPage * Scale

\* new jsPDF('p', 'mm', 'a4'): a document of one empty page
NewDoc == << <<>> >>

\* pdf.addPage() before every image, the first one included
AddPageAlways(doc, i, shot) ==
    LET d == Append(doc, <<>>)
    IN  [d EXCEPT ![Len(d)] = Append(d[Len(d)], shot)]

\* if (i > 0) pdf.addPage(); pdf.addImage(imgData, ...) draws on the last page
AddToPdf(doc, i, shot) ==
    LET d == IF i > 0 THEN Append(doc, <<>>) ELSE doc
    IN  [d EXCEPT ![Len(d)] = Append(d[Len(d)], shot)]

\* a finally block without setShowExportModal(false)
FinallyKeepsModal ==
    /\ isExporting' = FALSE
    /\ showExportModal' = showExportModal
    /\ exportProgress' = 0
    /\ run' = IdleRun
    /\ running' = running - 1

\* the finally block
Finally ==
    /\ isExporting' = FALSE
    /\ showExportModal' = FALSE
    /\ exportProgress' = 0
    /\ run' = IdleRun
    /\ running' = running - 1

\* the loop body up to its timer: progress, slice, setGhostPageData, setTimeout
BeginPage(r, i) ==
    /\ exportProgress' = Progress(i, Len(r.pages))
    /\ ghostPageData' = [products |-> PageProducts(r.allProducts, r.pages[i + 1], r.ipp),
                         pageNum |-> r.pages[i + 1]]
    /\ run' = [r EXCEPT !.pc = "timer", !.i = i, !.shot = <<>>]

\* the body of onclone: padding and margin of the text containers zeroed,
\* font size reduced, line height and letter spacing tightened
ExportFixes(page) == [page EXCEPT !.style = "exportFixes"]

\* an onclone that reaches for the page of the document instead of the clone
html2canvasOnLive(bld, page) ==
    [live |-> IF bld = "ghost" THEN ExportFixes(page) ELSE page,
     drawn |-> IF bld = "ghost" THEN ExportFixes(page) ELSE page]

\* html2canvas(element, {..., onclone}): the document is cloned, onclone is
\* given the clone, and the clone is what is drawn; the earlier build passes
\* no onclone
html2canvas(bld, page) ==
    [live |-> page,
     drawn |-> IF bld = "ghost" THEN ExportFixes(page) ELSE page]

\* html2canvas(element, ...) is called: what it rasterizes is the element as
\* it is now
StartCapture(r, el) ==
    LET c == html2canvas(build, el.shows)
    IN  /\ run' = [r EXCEPT !.pc = "capturing",
                            !.shot = [pNum |-> r.pages[r.i + 1], shows |-> c.drawn,
                                      unsettled |-> Loading(el.imgs)]]
        /\ rasterizing' = rasterizing \cup {r.pages[r.i + 1]}
        /\ elem' = [el EXCEPT !.shows = c.live]
        /\ ghostDom' = IF el.attached THEN c.live ELSE ghostDom

\* the click on Iniciar Exportacao: performExport up to its first await
performExport ==
    /\ ~dirty
    /\ showExportModal
    /\ StartEnabled
    /\ pdfSaved' = FALSE
    /\ pngFiles' = <<>>
    /\ LET res == ResolvePages(build, exportOpts.range, exportOpts.customRange,
                               totalPages, currentPage)
           r0 == [pc |-> "fetching", pages |-> res.pages, i |-> 0,
                  allProducts |-> products, ipp |-> itemsPerPage,
                  format |-> exportOpts.format, shot |-> <<>>]
       IN  IF res.threw
           THEN /\ alerts' = 1
                /\ isExporting' = FALSE
                /\ showExportModal' = FALSE
                /\ exportProgress' = 0
                /\ pdf' = <<>>
                /\ UNCHANGED <<run, running, ghostPageData>>
           ELSE /\ alerts' = 0
                /\ isExporting' = TRUE
                /\ running' = running + 1
                /\ IF NeedFullList(res.pages, currentPage)
                   THEN /\ exportProgress' = 0
                        /\ run' = r0
                        /\ pdf' = <<>>
                        /\ UNCHANGED <<ghostPageData, showExportModal>>
                   ELSE /\ pdf' = NewDoc
                        /\ BeginPage(r0, 0)
                        /\ UNCHANGED showExportModal
    /\ UNCHANGED <<build, db, products, totalCount, currentPage, gridCols, gridRows,
                   userActs, exportOpts, rasterizing, rsVars>>
    /\ CommitNow

\* await fetchAllProducts() returns; the document is opened and the loop entered
FetchAllReturns(ok) ==
    /\ run.pc = "fetching"
    /\ pdf' = NewDoc
    /\ BeginPage([run EXCEPT !.allProducts = fetchAllProducts(db, ok)], 0)
    /\ dirty' = TRUE
    /\ UNCHANGED <<build, userActs, appVars, showExportModal, isExporting, exportOpts, domVars,
                   running, rasterizing, pdfSaved, pngFiles, alerts, rsVars>>

\* the timer ends: the .a4-page now in the document is taken; the ghost build
\* waits for its images that are not complete, the earlier build captures at once
TimerFires ==
    /\ run.pc = "timer"
    /\ LET el == [shows |-> ghostDom, imgs |-> domImgs, attached |-> TRUE]
       IN  IF build = "ghost" /\ Loading(domImgs) # {}
           THEN /\ run' = [run EXCEPT !.pc = "images"]
                /\ elem' = el
                /\ UNCHANGED <<rasterizing, ghostDom>>
           ELSE StartCapture(run, el)
    /\ UNCHANGED <<build, userActs, appVars, dirty, previewVars, domImgs, running,
                   outVars, rsVars>>

\* handlers that record the outcome and never resolve the promise waited for
SettleWithoutResolve(id, outcome) ==
    /\ elem' = [elem EXCEPT !.imgs[id] = outcome]
    /\ UNCHANGED <<run, rasterizing, ghostDom>>

\* an image of the element performExport holds loads or fails (onload /
\* onerror); when it was the last one waited for, the capture starts
SettleElemImg(id, outcome) ==
    LET el == [elem EXCEPT !.imgs[id] = outcome]
    IN  IF run.pc = "images" /\ Loading(el.imgs) = {}
        THEN StartCapture(run, el)
        ELSE /\ elem' = el
             /\ UNCHANGED <<run, rasterizing, ghostDom>>

\* an image of the surface in the document loads or fails
ImgSettles(id, outcome) ==
    /\ id \in Loading(domImgs)
    /\ domImgs' = [domImgs EXCEPT ![id] = outcome]
    /\ IF elem.attached /\ id \in Loading(elem.imgs)
       THEN SettleElemImg(id, outcome)
       ELSE UNCHANGED <<elem, run, rasterizing, ghostDom>>
    /\ UNCHANGED <<build, userActs, appVars, dirty, previewVars, running, outVars, rsVars>>

\* an image of a held element that a later render took out of the document
DetachedImgSettles(id, outcome) ==
    /\ run.pc = "images"
    /\ ~elem.attached
    /\ id \in Loading(elem.imgs)
    /\ SettleElemImg(id, outcome)
    /\ UNCHANGED <<build, userActs, appVars, dirty, previewVars, domImgs, running,
                   outVars, rsVars>>

\* await html2canvas(...) returns the canvas: the page is assembled, then the
\* next page is begun or the export is finished
CaptureResolves ==
    /\ run.pc = "capturing"
    /\ rasterizing' = rasterizing \ {run.shot.pNum}
    /\ IF run.format = "png"
       THEN /\ pngFiles' = Append(pngFiles, [name |-> run.shot.pNum, image |-> run.shot])
            /\ UNCHANGED pdf
       ELSE /\ pdf' = AddToPdf(pdf, run.i, run.shot)
            /\ UNCHANGED pngFiles
    /\ IF run.i + 1 < Len(run.pages)
       THEN /\ BeginPage(run, run.i + 1)
            /\ UNCHANGED <<showExportModal, isExporting, running, pdfSaved, elem>>
       ELSE /\ pdfSaved' = (run.format = "pdf")
            /\ elem' = NoElem
            /\ ghostPageData' = ghostPageData
            /\ Finally
    /\ dirty' = TRUE
    /\ UNCHANGED <<build, userActs, appVars, exportOpts, ghostDom, domImgs, alerts, rsVars>>

\* a catch block that reports the error and saves what the document holds
CaptureRejectsAndSaves ==
    /\ run.pc = "capturing"
    /\ rasterizing' = rasterizing \ {run.shot.pNum}
    /\ alerts' = alerts + 1
    /\ elem' = NoElem
    /\ pdfSaved' = (run.format = "pdf")
    /\ Finally
    /\ dirty' = TRUE
    /\ UNCHANGED <<build, userActs, appVars, exportOpts, ghostPageData, ghostDom, domImgs,
                   pdf, pngFiles, rsVars>>

\* a catch block that reports the error and takes back the files already made
CaptureRejectsAndRetracts ==
    /\ run.pc = "capturing"
    /\ rasterizing' = rasterizing \ {run.shot.pNum}
    /\ alerts' = alerts + 1
    /\ elem' = NoElem
    /\ pngFiles' = <<>>
    /\ Finally
    /\ dirty' = TRUE
    /\ UNCHANGED <<build, userActs, appVars, exportOpts, ghostPageData, ghostDom, domImgs,
                   pdf, pdfSaved, rsVars>>

\* await html2canvas(...) throws: catch shows the error, finally cleans up
CaptureRejects ==
    /\ run.pc = "capturing"
    /\ rasterizing' = rasterizing \ {run.shot.pNum}
    /\ alerts' = alerts + 1
    /\ elem' = NoElem
    /\ Finally
    /\ dirty' = TRUE
    /\ UNCHANGED <<build, userActs, appVars, exportOpts, ghostPageData, ghostDom, domImgs,
                   pdf, pdfSaved, pngFiles, rsVars>>

\* ------------------------------------------------------------------ Next
\* the picture of product 1 is on the server, the file of product 2 is missing:
\* its <img> fires onerror
Outcome(id) == IF id = 2 THEN "failed" ELSE "loaded"
Ids == 1..MaxProducts

\* The listing requests of this specification are answered by the server; the
\* request that can fail here is the one of fetchAllProducts.
Next ==
    \/ ReactCommit
    \/ \E req \in loads : LoadReturns(req, TRUE)
    \/ \E c \in GridCols, r \in GridRows : SaveSettings(c, r)
    \/ \E d \in {-1, 1} : PreviewPageChange(d)
    \/ OpenExportModal
    \/ CancelExportModal
    \/ \E m \in RangeModes : ChooseRange(m)
    \/ \E t \in TypedRanges : TypeRange(t)
    \/ \E f \in Formats : ChooseFormat(f)
    \/ performExport
    \/ \E ok \in BOOLEAN : FetchAllReturns(ok)
    \/ TimerFires
    \/ \E id \in Ids : ImgSettles(id, Outcome(id))
    \/ \E id \in Ids : DetachedImgSettles(id, Outcome(id))
    \/ CaptureResolves
    \/ CaptureRejects

Spec == Init /\ [][Next]_vars

\* ------------------------------------------- specification with fairness
\* The export with the renders that follow its own state updates and the
\* modal's Cancelar.  What an export in flight waits for comes: its timer
\* fires, the full-list request and html2canvas return or throw, and every
\* image in flight loads or fails.
ExportStep ==
    \/ \E ok \in BOOLEAN : FetchAllReturns(ok)
    \/ TimerFires
    \/ \E id \in Ids : ImgSettles(id, Outcome(id))
    \/ \E id \in Ids : DetachedImgSettles(id, Outcome(id))
    \/ CaptureResolves
    \/ CaptureRejects

LvNext ==
    \/ ReactCommit
    \/ CancelExportModal
    \/ performExport
    \/ ExportStep

\* the settled application with a full products table, on its first page
LvInit == Init /\ Len(db) = MaxProducts /\ currentPage = 1

SpecLive == LvInit /\ [][LvNext]_vars /\ WF_vars(ExportStep)

\* ----------------------------------------- specification of the resolver
\* Every request the export modal can hold, then the resolution step that
\* opens performExport.
RsInit ==
    /\ rsIn \in [build : Builds, range : RangeModes, customRange : Texts,
                 totalPages : 1..MaxTotalPages, currentPage : 1..MaxTotalPages]
    /\ rsOut = [done |-> FALSE, threw |-> FALSE, pages |-> <<>>]
    /\ build = rsIn.build
    /\ db = <<>>
    /\ products = <<>>
    /\ totalCount = 0
    /\ currentPage = rsIn.currentPage
    /\ userActs = 0
    /\ gridCols = 1
    /\ gridRows = 1
    /\ loads = {}
    /\ effDeps = <<currentPage, itemsPerPage>>
    /\ dirty = FALSE
    /\ showExportModal = TRUE
    /\ isExporting = FALSE
    /\ exportProgress = 0
    /\ exportOpts = [format |-> "pdf", range |-> rsIn.range,
                     customRange |-> rsIn.customRange]
    /\ ghostPageData = [products |-> <<>>, pageNum |-> Scale]
    /\ ghostDom = RenderGhost(ghostPageData, gridCols, gridRows)
    /\ domImgs = <<>>
    /\ elem = NoElem
    /\ run = IdleRun
    /\ running = 0
    /\ rasterizing = {}
    /\ pdf = <<>>
    /\ pdfSaved = FALSE
    /\ pngFiles = <<>>
    /\ alerts = 0

RsResolve ==
    /\ ~rsOut.done
    /\ LET r == ResolvePages(rsIn.build, rsIn.range, rsIn.customRange,
                             rsIn.totalPages, rsIn.currentPage)
       IN  rsOut' = [done |-> TRUE, threw |-> r.threw, pages |-> r.pages]
    /\ UNCHANGED <<rsIn, mainVars>>

RsNext == RsResolve

SpecResolve == RsInit /\ [][RsNext]_vars

\* ------------------------------------- specification of the token grammar
\* The customRange texts a user composes from tokens: an integer, with or
\* without a blank before it; a range A-B; or one of the malformed tokens.
DigitChar(d) ==
    CASE d = 0 -> "0" [] d = 1 -> "1" [] d = 2 -> "2" [] d = 3 -> "3" [] d = 4 -> "4"
      [] d = 5 -> "5" [] d = 6 -> "6" [] d = 7 -> "7" [] d = 8 -> "8" [] d = 9 -> "9"

RECURSIVE NatText(_)
NatText(n) == IF n < 10 THEN <<DigitChar(n)>> ELSE Append(NatText(n \div 10), DigitChar(n % 10))

Malformed == {<<"a">>, <<>>, <<" ">>, <<"3", "-">>, <<"-", "3">>,
              <<"1", "-", "2", "-", "3">>, <<"a", "-", "4">>}

Tokens ==
    [kind : {"int"}, n : (-1)..MaxInt, blank : BOOLEAN]
    \cup [kind : {"range"}, a : 0..MaxInt, b : 0..MaxInt]
    \cup [kind : {"bad"}, text : Malformed]

TokenText(t) ==
    CASE t.kind = "int" ->
           (IF t.blank THEN <<" ">> ELSE <<>>)
           \o (IF t.n < 0 THEN <<"-">> \o NatText(0 - t.n) ELSE NatText(t.n))
      [] t.kind = "range" -> NatText(t.a) \o <<"-">> \o NatText(t.b)
      [] t.kind = "bad" -> t.text

RECURSIVE Join(_)
Join(ts) ==
    IF Len(ts) = 1 THEN TokenText(ts[1])
    ELSE TokenText(ts[1]) \o <<",">> \o Join(Tail(ts))

TkInit ==
    /\ \E ts \in UNION {[1..n -> Tokens] : n \in 1..MaxTokens} :
       \E tp \in 1..MaxTotalPages, cp \in 1..MaxTotalPages, b \in Builds :
          /\ cp <= tp
          /\ rsIn = [build |-> b, range |-> "custom", customRange |-> Join(ts),
                     totalPages |-> tp, currentPage |-> cp, tokens |-> ts]
    /\ rsOut = [done |-> FALSE, threw |-> FALSE, pages |-> <<>>]
    /\ build = rsIn.build
    /\ db = <<>>
    /\ products = <<>>
    /\ totalCount = 0
    /\ currentPage = rsIn.currentPage
    /\ userActs = 0
    /\ gridCols = 1
    /\ gridRows = 1
    /\ loads = {}
    /\ effDeps = <<currentPage, itemsPerPage>>
    /\ dirty = FALSE
    /\ showExportModal = TRUE
    /\ isExporting = FALSE
    /\ exportProgress = 0
    /\ exportOpts = [format |-> "pdf", range |-> rsIn.range,
                     customRange |-> rsIn.customRange]
    /\ ghostPageData = [products |-> <<>>, pageNum |-> Scale]
    /\ ghostDom = RenderGhost(ghostPageData, gridCols, gridRows)
    /\ domImgs = <<>>
    /\ elem = NoElem
    /\ run = IdleRun
    /\ running = 0
    /\ rasterizing = {}
    /\ pdf = <<>>
    /\ pdfSaved = FALSE
    /\ pngFiles = <<>>
    /\ alerts = 0

TkResolve == RsResolve

TkNext == TkResolve

SpecTokens == TkInit /\ [][TkNext]_vars

\* ----------------------------------------- specification of the page count
\* The settings the user can save: handleChange stores Number(value) of the
\* gridCols and gridRows inputs unchecked, so an emptied field or a typed 0
\* is saved as 0.
GridTyped == 0..MaxGrid
RowsTyped == 0..MaxRows

\* the limit the listing endpoint falls back to
DefaultLimit == 15

\* const page = parseInt(req.query.page) || 1; const limit = parseInt(req.query.limit) || 15
GetProducts(table, page, limit) ==
    ListProducts(table, IF page = 0 THEN 1 ELSE page, IF limit = 0 THEN DefaultLimit ELSE limit)

\* Math.ceil(totalCount / itemsPerPage) || 1, as a JavaScript number: n / 0 is
\* Infinity for n > 0 and NaN for n = 0; NaN and 0 are falsy, Infinity is not.
AppTotalPages(count, ipp) ==
    IF ipp = 0
    THEN (IF count = 0 THEN [inf |-> FALSE, n |-> 1] ELSE [inf |-> TRUE, n |-> 0])
    ELSE [inf |-> FALSE, n |-> IF CeilDiv(count, ipp) = 0 THEN 1 ELSE CeilDiv(count, ipp)]

\* the resolution of range 'all' for the totalPages prop the App passes:
\* Array.from({length: Infinity}) throws RangeError inside the try block
ResolveAll(bld, tp, curPage) ==
    IF tp.inf THEN [threw |-> TRUE, pages |-> <<>>]
    ELSE ResolvePages(bld, "all", <<>>, tp.n, curPage)

PgInit ==
    /\ \E b \in Builds, n \in 0..MaxProducts, c \in GridTyped, r \in RowsTyped,
          cp \in 1..MaxTotalPages :
          /\ rsIn = [build |-> b, totalCount |-> n, gridCols |-> c, gridRows |-> r,
                     currentPage |-> cp]
          /\ db = [k \in 1..n |-> k]
          /\ AppTotalPages(n, c * r).inf \/ cp <= AppTotalPages(n, c * r).n
    /\ rsOut = [listed |-> FALSE, label |-> 0, prop |-> 0, server |-> 0,
                resolves |-> 0, first |-> <<>>, second |-> <<>>]
    /\ build = rsIn.build
    /\ totalCount = rsIn.totalCount
    /\ gridCols = rsIn.gridCols
    /\ gridRows = rsIn.gridRows
    /\ currentPage = rsIn.currentPage
    /\ products = GetProducts(db, currentPage, itemsPerPage).products
    /\ userActs = 0
    /\ loads = {}
    /\ effDeps = <<currentPage, itemsPerPage>>
    /\ dirty = FALSE
    /\ showExportModal = TRUE
    /\ isExporting = FALSE
    /\ exportProgress = 0
    /\ exportOpts = [format |-> "pdf", range |-> "all", customRange |-> <<>>]
    /\ ghostPageData = [products |-> <<>>, pageNum |-> Scale]
    /\ ghostDom = RenderGhost(ghostPageData, gridCols, gridRows)
    /\ domImgs = <<>>
    /\ elem = NoElem
    /\ run = IdleRun
    /\ running = 0
    /\ rasterizing = {}
    /\ pdf = <<>>
    /\ pdfSaved = FALSE
    /\ pngFiles = <<>>
    /\ alerts = 0

\* the listing response for the current page and the render that shows the
\* pagination label and hands totalPages to the preview
PgList ==
    /\ ~rsOut.listed
    /\ rsOut' = [rsOut EXCEPT
                   !.listed = TRUE,
                   !.label = AppTotalPages(totalCount, itemsPerPage),
                   !.prop = AppTotalPages(totalCount, itemsPerPage),
                   !.server = GetProducts(db, currentPage, itemsPerPage).totalPages]
    /\ UNCHANGED <<rsIn, mainVars>>

\* the resolution of performExport with range 'all', up to two exports
PgExportAll ==
    /\ rsOut.listed
    /\ rsOut.resolves < 2
    /\ LET res == ResolveAll(build, rsOut.prop, currentPage)
       IN  rsOut' = [rsOut EXCEPT
                       !.resolves = @ + 1,
                       !.first = IF rsOut.resolves = 0 THEN res ELSE @,
                       !.second = IF rsOut.resolves = 1 THEN res ELSE @]
    /\ UNCHANGED <<rsIn, mainVars>>

PgNext == PgList \/ PgExportAll

SpecPages == PgInit /\ [][PgNext]_vars

\* --------------------------------------- specification of settings loading
\* the keys of DEFAULT_SETTINGS
DefaultKeys ==
    {"cardBorderColor", "cardBorderWidth", "cardDescAlignHoriz", "cardDescAlignVert",
     "cardDescBg", "cardDescFontSize", "cardDescTextColor", "cardIdAlignHoriz",
     "cardIdAlignVert", "cardIdBg", "cardIdFontSize", "cardIdTextColor", "cardImgBg",
     "cardStyle", "footerAlign", "footerText", "gridCols", "gridGap", "gridRows",
     "headerAlign", "headerText", "headerTextColor", "headerTextSize",
     "pageMarginBottom", "pageMarginLeft", "pageMarginRight", "pageMarginTop",
     "showPageNumbers", "showProductId", "watermarkEnabled", "watermarkOpacity",
     "watermarkSizeMm", "watermarkText", "watermarkType"}

DEFAULT_SETTINGS == [k \in DefaultKeys |-> "default"]

\* the settings fields CatalogPreview reads without a guard when it lays a
\* page out (headerLogoData and watermarkLogoData are optional and tested
\* before use)
LayoutFields ==
    {"cardBorderColor", "cardBorderRadius", "cardBorderWidth", "cardDescAlignHoriz",
     "cardDescAlignVert", "cardDescBg", "cardDescFontSize", "cardDescTextColor",
     "cardIdAlignHoriz", "cardIdAlignVert", "cardIdBg", "cardIdFontSize",
     "cardIdTextColor", "cardImgBg", "cardStyle", "footerAlign", "footerText",
     "gridCols", "gridGap", "gridRows", "headerAlign", "headerText",
     "headerTextColor", "headerTextSize", "pageMarginBottom", "pageMarginLeft",
     "pageMarginRight", "pageMarginTop", "showPageNumbers", "showProductId",
     "watermarkEnabled", "watermarkOpacity", "watermarkSizeMm", "watermarkText",
     "watermarkType"}

\* the keys a stored settings object is drawn over
StoredKeys == {"cardBorderRadius", "cardIdFontSize", "cardDescFontSize", "cardIdAlignHoriz",
               "cardDescAlignVert", "watermarkSizeMm", "gridCols"}

\* { ...DEFAULT_SETTINGS, ...saved }
Merge(defaults, saved) ==
    [k \in DOMAIN defaults \cup DOMAIN saved |->
        IF k \in DOMAIN saved THEN saved[k] ELSE defaults[k]]

\* fetchSettings: the stored object, DEFAULT_SETTINGS when the request fails
\* or the server answers 5xx
fetchSettings(stored, ok) == IF ok THEN stored ELSE DEFAULT_SETTINGS

StInit ==
    /\ \E ks \in SUBSET StoredKeys : rsIn = [stored |-> [k \in ks |-> "stored"]]
    /\ rsOut = [done |-> FALSE, settings |-> DEFAULT_SETTINGS]
    /\ build \in Builds
    /\ db = <<>>
    /\ products = <<>>
    /\ totalCount = 0
    /\ currentPage = 1
    /\ userActs = 0
    /\ gridCols = 1
    /\ gridRows = 1
    /\ loads = {}
    /\ effDeps = <<currentPage, itemsPerPage>>
    /\ dirty = FALSE
    /\ showExportModal = FALSE
    /\ isExporting = FALSE
    /\ exportProgress = 0
    /\ exportOpts = [format |-> "pdf", range |-> "current", customRange |-> <<>>]
    /\ ghostPageData = [products |-> <<>>, pageNum |-> Scale]
    /\ ghostDom = RenderGhost(ghostPageData, gridCols, gridRows)
    /\ domImgs = <<>>
    /\ elem = NoElem
    /\ run = IdleRun
    /\ running = 0
    /\ rasterizing = {}
    /\ pdf = <<>>
    /\ pdfSaved = FALSE
    /\ pngFiles = <<>>
    /\ alerts = 0

\* loadSettings, from the response on; when fetchSettings throws (a 4xx
\* answer) the catch block leaves the initial DEFAULT_SETTINGS in place
loadSettings(outcome) ==
    /\ ~rsOut.done
    /\ rsOut' = [done |-> TRUE,
                 settings |-> IF outcome = "throws" THEN rsOut.settings
                              ELSE Merge(DEFAULT_SETTINGS,
                                         fetchSettings(rsIn.stored, outcome = "ok"))]
    /\ UNCHANGED <<rsIn, mainVars>>

StNext == \E o \in {"ok", "mock", "throws"} : loadSettings(o)

SpecSettings == StInit /\ [][StNext]_vars

\* ------------------------------------ specification of the progress value
\* The loop of performExport over a list of n pages, reduced to its counter
\* and the progress it sets: rsIn is [n], rsOut is [i, progress].
PrInit ==
    /\ rsIn \in {[n |-> n] : n \in 1..MaxExportPages}
    /\ rsOut = [i |-> 0, progress |-> Progress(0, rsIn.n)]
    /\ build = "ghost"
    /\ userActs = 0
    /\ db = <<>>
    /\ products = <<>>
    /\ totalCount = 0
    /\ currentPage = 1
    /\ gridCols = 1
    /\ gridRows = 1
    /\ loads = {}
    /\ effDeps = <<1, 1>>
    /\ dirty = FALSE
    /\ showExportModal = TRUE
    /\ isExporting = TRUE
    /\ exportProgress = 0
    /\ exportOpts = [format |-> "pdf", range |-> "all", customRange |-> <<>>]
    /\ ghostPageData = [products |-> <<>>, pageNum |-> Scale]
    /\ ghostDom = RenderGhost(ghostPageData, gridCols, gridRows)
    /\ domImgs = <<>>
    /\ elem = NoElem
    /\ run = IdleRun
    /\ running = 0
    /\ rasterizing = {}
    /\ pdf = <<>>
    /\ pdfSaved = FALSE
    /\ pngFiles = <<>>
    /\ alerts = 0

\* for (...; i < pagesToExport.length; i++) { setExportProgress(Math.round(...)); ... }
PrNextPage ==
    /\ rsOut.i + 1 < rsIn.n
    /\ rsOut' = [i |-> rsOut.i + 1, progress |-> Progress(rsOut.i + 1, rsIn.n)]
    /\ UNCHANGED <<mainVars, rsIn>>

PrNext == PrNextPage

SpecProgress == PrInit /\ [][PrNext]_vars

\* ------------------------------- specification of the export's geometry
\* The zoom buttons of the toolbar and the capture of one page.  Lengths are
\* CSS pixels; zoom and quality are kept in tenths, a transform as the scale
\* factor in tenths.  rsIn is [build, zoom, quality], rsOut the geometry of
\* the last capture.
A4WidthPx == 794
A4HeightPx == 1123
GhostScale == 4
InitialZoom == 8
MinZoom == 3
MaxZoom == 20
\* the quality slider: min 0.1 in the ghost build, 0.5 in the earlier one
Qualities(bld) == IF bld = "ghost" THEN 1..10 ELSE 5..10

\* a CSS length in mm as the integer offsetWidth / offsetHeight report:
\* 96 px per 25.4 mm, rounded
MmToPx(mm) == (mm * 9600 + 1270) \div 2540

\* the .a4-page inside the off-screen container: fixed pixels in the ghost
\* build, millimetres in the earlier one; no ancestor carries a transform
GhostPage(bld) ==
    [width |-> IF bld = "ghost" THEN A4WidthPx ELSE MmToPx(210),
     height |-> IF bld = "ghost" THEN A4HeightPx ELSE MmToPx(297),
     transforms |-> <<>>]

\* the .a4-page of the interactive preview, inside the wrapper that carries
\* transform: scale(zoom)
PreviewPage(bld, zoom) ==
    [width |-> MmToPx(210), height |-> MmToPx(297), transforms |-> <<zoom>>]

\* a lookup of '.a4-page' that finds the page of the interactive preview
QueryPreviewPage(bld, zoom) == PreviewPage(bld, zoom)

\* ghostRef.current.querySelector('.a4-page')
QueryGhostPage(bld, zoom) == GhostPage(bld)

\* the options html2canvas is given, and the surface it is given them for
CaptureGeometry(bld, quality, element) ==
    [surface |-> [width |-> element.width, height |-> element.height],
     width |-> IF bld = "ghost" THEN A4WidthPx ELSE element.width,
     height |-> IF bld = "ghost" THEN A4HeightPx ELSE element.height,
     scale |-> IF bld = "ghost" THEN GhostScale ELSE IF quality = 10 THEN 3 ELSE 2,
     transforms |-> element.transforms]

ZmInit ==
    /\ rsIn \in [build : Builds, zoom : {InitialZoom}, quality : 1..10]
    /\ rsIn.quality \in Qualities(rsIn.build)
    /\ rsOut = [captured |-> FALSE]
    /\ build = rsIn.build
    /\ userActs = 0
    /\ db = <<>>
    /\ products = <<>>
    /\ totalCount = 0
    /\ currentPage = 1
    /\ gridCols = 1
    /\ gridRows = 1
    /\ loads = {}
    /\ effDeps = <<1, 1>>
    /\ dirty = FALSE
    /\ showExportModal = FALSE
    /\ isExporting = FALSE
    /\ exportProgress = 0
    /\ exportOpts = [format |-> "pdf", range |-> "current", customRange |-> <<>>]
    /\ ghostPageData = [products |-> <<>>, pageNum |-> Scale]
    /\ ghostDom = RenderGhost(ghostPageData, gridCols, gridRows)
    /\ domImgs = <<>>
    /\ elem = NoElem
    /\ run = IdleRun
    /\ running = 0
    /\ rasterizing = {}
    /\ pdf = <<>>
    /\ pdfSaved = FALSE
    /\ pngFiles = <<>>
    /\ alerts = 0

\* setZoom(z => Math.min(2, z + 0.1))
ZoomIn ==
    /\ rsIn' = [rsIn EXCEPT !.zoom = IF rsIn.zoom + 1 > MaxZoom THEN MaxZoom ELSE rsIn.zoom + 1]
    /\ UNCHANGED <<mainVars, rsOut>>

\* setZoom(z => Math.max(0.3, z - 0.1))
ZoomOut ==
    /\ rsIn' = [rsIn EXCEPT !.zoom = IF rsIn.zoom - 1 < MinZoom THEN MinZoom ELSE rsIn.zoom - 1]
    /\ UNCHANGED <<mainVars, rsOut>>

\* the capture of one page of an export made at the present zoom
ZmCapture ==
    /\ rsOut' = [captured |-> TRUE, zoom |-> rsIn.zoom,
                 geometry |-> CaptureGeometry(rsIn.build, rsIn.quality,
                                              QueryGhostPage(rsIn.build, rsIn.zoom))]
    /\ UNCHANGED <<mainVars, rsIn>>

ZmNext == ZoomIn \/ ZoomOut \/ ZmCapture

SpecZoom == ZmInit /\ [][ZmNext]_vars

\* ------------------------------- specification of the settings modal's grid
\* The Colunas and Linhas fields of the settings modal and its buttons.  rsIn
\* is the modal: [isOpen, formData]; the settings saved are gridCols and
\* gridRows.  The fields are number inputs: their value is a numeric text or
\* the empty text.
GridTexts == {<<>>} \cup {NatText(n) : n \in 0..MaxInt}

\* the settings button of the header; the modal's effect copies the current
\* settings into formData
OpenSettings ==
    /\ ~rsIn.isOpen
    /\ rsIn' = [isOpen |-> TRUE, formData |-> [gridCols |-> gridCols, gridRows |-> gridRows]]
    /\ UNCHANGED <<mainVars, rsOut>>

\* handleChange of a number input: newValue = Number(value)
handleChange(name, value) ==
    /\ rsIn.isOpen
    /\ rsIn' = [rsIn EXCEPT !.formData[name] = Number(value).v \div Scale]
    /\ UNCHANGED <<mainVars, rsOut>>

\* Salvar: handleSaveWrapper calls onSave(formData), which is
\* handleSaveSettings: setSettings(newSettings), setIsSettingsOpen(false),
\* setCurrentPage(1)
handleSaveSettings ==
    /\ rsIn.isOpen
    /\ gridCols' = rsIn.formData.gridCols
    /\ gridRows' = rsIn.formData.gridRows
    /\ currentPage' = 1
    /\ rsIn' = [rsIn EXCEPT !.isOpen = FALSE]
    /\ rsOut' = [saves |-> IF rsOut.saves < 2 THEN rsOut.saves + 1 ELSE 2]
    /\ UNCHANGED <<build, db, products, totalCount, userActs, loads, effDeps, dirty,
                   previewVars, domVars, runVars, outVars>>

\* Cancelar, or the X of the modal
CloseSettings ==
    /\ rsIn.isOpen
    /\ rsIn' = [rsIn EXCEPT !.isOpen = FALSE]
    /\ UNCHANGED <<mainVars, rsOut>>

GdInit ==
    /\ gridCols \in GridCols
    /\ gridRows \in GridRows
    /\ rsIn = [isOpen |-> FALSE, formData |-> [gridCols |-> gridCols, gridRows |-> gridRows]]
    /\ rsOut = [saves |-> 0]
    /\ build = "ghost"
    /\ userActs = 0
    /\ db \in {[k \in 1..n |-> k] : n \in 0..MaxProducts}
    /\ totalCount = Len(db)
    /\ currentPage = 1
    /\ products = ListProducts(db, currentPage, itemsPerPage).products
    /\ loads = {}
    /\ effDeps = <<currentPage, itemsPerPage>>
    /\ dirty = FALSE
    /\ showExportModal = FALSE
    /\ isExporting = FALSE
    /\ exportProgress = 0
    /\ exportOpts = [format |-> "pdf", range |-> "current", customRange |-> <<>>]
    /\ ghostPageData = [products |-> <<>>, pageNum |-> Scale]
    /\ ghostDom = RenderGhost(ghostPageData, gridCols, gridRows)
    /\ domImgs = <<>>
    /\ elem = NoElem
    /\ run = IdleRun
    /\ running = 0
    /\ rasterizing = {}
    /\ pdf = <<>>
    /\ pdfSaved = FALSE
    /\ pngFiles = <<>>
    /\ alerts = 0

GdNext ==
    \/ OpenSettings
    \/ \E name \in {"gridCols", "gridRows"}, value \in GridTexts : handleChange(name, value)
    \/ handleSaveSettings
    \/ CloseSettings

SpecGrid == GdInit /\ [][GdNext]_vars

\* ------------------------------------- specification of the App's paging
\* The product list of the App: the page buttons of the editor list and of
\* the preview toolbar, the settings save, the deletion of a listed product,
\* and loadProducts.  A listing request travels to the server, is answered
\* from the table as it is at that moment, and its response travels back;
\* loads holds the requests on their way, rsIn the responses on their way and
\* rsOut counts the deletions, up to MaxProducts.
InFlight == Cardinality(loads) + Cardinality(rsIn)

\* Anterior of the editor list: setCurrentPage(p => Math.max(1, p-1)),
\* disabled={currentPage <= 1}
EditorPrevPage ==
    /\ ~dirty
    /\ InFlight < MaxInFlight
    /\ ~(currentPage <= 1)
    /\ currentPage' = IF currentPage - 1 > 1 THEN currentPage - 1 ELSE 1
    /\ UNCHANGED <<build, db, products, totalCount, gridCols, gridRows, userActs,
                   previewVars, runVars, outVars, rsVars>>
    /\ CommitNow

\* Proxima of the editor list: setCurrentPage(p => p+1),
\* disabled={currentPage * itemsPerPage >= totalCount}
EditorNextPage ==
    /\ ~dirty
    /\ InFlight < MaxInFlight
    /\ ~(currentPage * itemsPerPage >= totalCount)
    /\ currentPage' = currentPage + 1
    /\ UNCHANGED <<build, db, products, totalCount, gridCols, gridRows, userActs,
                   previewVars, runVars, outVars, rsVars>>
    /\ CommitNow

\* DELETE /api/products/:id
DeleteRow(table, id) == SelectSeq(table, LAMBDA x : x # id)

\* handleConfirmDelete for a product of the list shown: await
\* api.deleteProduct(id), then loadProducts() sends a listing request for the
\* current page and page size
handleConfirmDelete(id) ==
    /\ ~dirty
    /\ InFlight < MaxInFlight
    /\ id \in Range(products)
    /\ db' = DeleteRow(db, id)
    /\ loads' = loads \cup {[page |-> currentPage, limit |-> itemsPerPage]}
    /\ rsOut' = [deletions |-> IF rsOut.deletions < MaxProducts
                                THEN rsOut.deletions + 1 ELSE MaxProducts]
    /\ UNCHANGED <<build, products, totalCount, currentPage, gridCols, gridRows,
                   userActs, effDeps, dirty, previewVars, domVars, runVars, outVars, rsIn>>

\* GET /api/products answers a listing request
ServerLists(req) ==
    /\ req \in loads
    /\ loads' = loads \ {req}
    /\ rsIn' = rsIn \cup {GetProducts(db, req.page, req.limit)}
    /\ UNCHANGED <<build, db, products, totalCount, currentPage, gridCols, gridRows,
                   userActs, effDeps, dirty, previewVars, domVars, runVars, outVars, rsOut>>

\* if (res.currentPage > res.totalPages && res.totalPages > 0) setCurrentPage(res.totalPages)
AdjustPage(res) ==
    IF res.currentPage > res.totalPages /\ res.totalPages > 0
    THEN res.totalPages ELSE currentPage

\* loadProducts, from the response on
ListingArrives(res) ==
    /\ res \in rsIn
    /\ rsIn' = rsIn \ {res}
    /\ products' = res.products
    /\ totalCount' = res.totalCount
    /\ currentPage' = AdjustPage(res)
    /\ dirty' = TRUE
    /\ UNCHANGED <<build, db, gridCols, gridRows, userActs, loads, effDeps,
                   previewVars, domVars, runVars, outVars, rsOut>>

NvInit ==
    /\ build = "ghost"
    /\ userActs = 0
    /\ db \in {[k \in 1..n |-> k] : n \in 0..MaxProducts}
    /\ gridCols \in GridCols
    /\ gridRows \in GridRows
    /\ totalCount = Len(db)
    /\ currentPage = 1
    /\ products = ListProducts(db, currentPage, itemsPerPage).products
    /\ loads = {}
    /\ effDeps = <<currentPage, itemsPerPage>>
    /\ dirty = FALSE
    /\ showExportModal = FALSE
    /\ isExporting = FALSE
    /\ exportProgress = 0
    /\ exportOpts = [format |-> "pdf", range |-> "current", customRange |-> <<>>]
    /\ ghostPageData = [products |-> <<>>, pageNum |-> Scale]
    /\ ghostDom = RenderGhost(ghostPageData, gridCols, gridRows)
    /\ domImgs = <<>>
    /\ elem = NoElem
    /\ run = IdleRun
    /\ running = 0
    /\ rasterizing = {}
    /\ pdf = <<>>
    /\ pdfSaved = FALSE
    /\ pngFiles = <<>>
    /\ alerts = 0
    /\ rsIn = {}
    /\ rsOut = [deletions |-> 0]

NvNext ==
    \/ EditorPrevPage
    \/ EditorNextPage
    \/ \E d \in {-1, 1} : PreviewPageChange(d)
    \/ \E c \in GridCols, r \in GridRows : SaveSettings(c, r)
    \/ \E id \in 1..MaxProducts : handleConfirmDelete(id)
    \/ \E req \in loads : ServerLists(req)
    \/ \E res \in rsIn : ListingArrives(res)
    \/ ReactCommit

SpecPaging == NvInit /\ [][NvNext]_vars

\* --------------------------------- specification of the batch import
\* POST /api/products/batch-import.  db is the committed products table, as
\* the ids of its rows; rsIn is the request body, a sequence of rows
\* [id, description] where 0 stands for a missing or empty field; rsOut is the
\* handler: its position, the index of the row at hand, its counters, the
\* rows inserted in the open transaction, the response sent and the table
\* before the request.  Every awaited statement succeeds or rejects.
BatchRows == [id : 0..MaxProducts, description : 0..1]
Batches == UNION {[1..n -> BatchRows] : n \in 0..MaxBatch}

\* await connection.beginTransaction()
beginTransaction(ok) ==
    /\ rsOut.pc = "begin"
    /\ rsOut' = IF ok THEN [rsOut EXCEPT !.pc = "row"]
                ELSE [rsOut EXCEPT !.pc = "catch", !.failed = TRUE]
    /\ UNCHANGED <<mainVars, rsIn>>

\* the row the loop is at
AtRow == rsOut.pc = "row" /\ rsOut.i <= Len(rsIn)

\* if (!p.id || !p.description) { skipped++; continue; }
Lacking(p) == p.id = 0 \/ p.description = 0

SkipLacking ==
    /\ AtRow
    /\ Lacking(rsIn[rsOut.i])
    /\ rsOut' = [rsOut EXCEPT !.skipped = @ + 1, !.i = @ + 1]
    /\ UNCHANGED <<mainVars, rsIn>>

\* SELECT id FROM products WHERE id = ?, on the transaction's connection: it
\* sees the committed rows and the rows this transaction inserted
SelectId(id) == {x \in Range(db) \cup Range(rsOut.tx) : x = id}

\* the SELECT of the loop, and the else branch: skipped++
SelectExisting(ok) ==
    /\ AtRow
    /\ ~Lacking(rsIn[rsOut.i])
    /\ rsOut' = IF ~ok THEN [rsOut EXCEPT !.pc = "catch", !.failed = TRUE]
                ELSE IF SelectId(rsIn[rsOut.i].id) = {} THEN [rsOut EXCEPT !.pc = "insert"]
                ELSE [rsOut EXCEPT !.skipped = @ + 1, !.i = @ + 1]
    /\ UNCHANGED <<mainVars, rsIn>>

\* INSERT INTO products ...; imported++
InsertRow(ok) ==
    /\ rsOut.pc = "insert"
    /\ rsOut' = IF ok
                THEN [rsOut EXCEPT !.tx = Append(@, rsIn[rsOut.i].id),
                                   !.imported = @ + 1, !.i = @ + 1, !.pc = "row"]
                ELSE [rsOut EXCEPT !.pc = "catch", !.failed = TRUE]
    /\ UNCHANGED <<mainVars, rsIn>>

\* await connection.commit(); res.status(200).json({ imported, skipped })
commit(ok) ==
    /\ rsOut.pc = "row"
    /\ rsOut.i > Len(rsIn)
    /\ IF ok
       THEN /\ db' = db \o rsOut.tx
            /\ rsOut' = [rsOut EXCEPT !.tx = <<>>, !.status = 200, !.pc = "done"]
       ELSE /\ db' = db
            /\ rsOut' = [rsOut EXCEPT !.pc = "catch", !.failed = TRUE]
    /\ UNCHANGED <<build, products, totalCount, currentPage, gridCols, gridRows,
                   userActs, loads, effDeps, dirty, previewVars, domVars, runVars,
                   outVars, rsIn>>

\* catch: await connection.rollback(); res.status(500).json(...).  When the
\* rollback rejects, the handler's promise rejects before a response is sent;
\* finally releases the connection either way.
rollback(ok) ==
    /\ rsOut.pc = "catch"
    /\ rsOut' = IF ok THEN [rsOut EXCEPT !.tx = <<>>, !.status = 500, !.pc = "done"]
                ELSE [rsOut EXCEPT !.pc = "done"]
    /\ UNCHANGED <<mainVars, rsIn>>

ImInit ==
    /\ db \in {[k \in 1..n |-> k] : n \in 0..MaxProducts}
    /\ rsIn \in Batches
    /\ rsOut = [pc |-> "begin", i |-> 1, imported |-> 0, skipped |-> 0, tx |-> <<>>,
                status |-> 0, failed |-> FALSE, before |-> db]
    /\ build = "ghost"
    /\ userActs = 0
    /\ gridCols = 1
    /\ gridRows = 1
    /\ totalCount = Len(db)
    /\ currentPage = 1
    /\ products = ListProducts(db, currentPage, itemsPerPage).products
    /\ loads = {}
    /\ effDeps = <<currentPage, itemsPerPage>>
    /\ dirty = FALSE
    /\ showExportModal = FALSE
    /\ isExporting = FALSE
    /\ exportProgress = 0
    /\ exportOpts = [format |-> "pdf", range |-> "current", customRange |-> <<>>]
    /\ ghostPageData = [products |-> <<>>, pageNum |-> Scale]
    /\ ghostDom = RenderGhost(ghostPageData, gridCols, gridRows)
    /\ domImgs = <<>>
    /\ elem = NoElem
    /\ run = IdleRun
    /\ running = 0
    /\ rasterizing = {}
    /\ pdf = <<>>
    /\ pdfSaved = FALSE
    /\ pngFiles = <<>>
    /\ alerts = 0

ImNext ==
    \/ \E ok \in BOOLEAN : beginTransaction(ok)
    \/ SkipLacking
    \/ \E ok \in BOOLEAN : SelectExisting(ok)
    \/ \E ok \in BOOLEAN : InsertRow(ok)
    \/ \E ok \in BOOLEAN : commit(ok)
    \/ \E ok \in BOOLEAN : rollback(ok)

SpecImport == ImInit /\ [][ImNext]_vars

\* ============================================================ properties
\* the page of the export in flight, once its loop is entered
InLoop == run.pc \in {"timer", "images", "capturing"}
PNum == run.pages[run.i + 1]

\* the images drawn on the document so far, in page order
Drawn(doc) == Concat(doc)

StrictlyAscending(xs) == \A k \in 1..(Len(xs) - 1) : xs[k] < xs[k + 1]

\* C1: the resolution at the start of performExport never fails and never
\* yields an empty list; when the request selects no page the list is exactly
\* [currentPage].
C1_ResolutionNeverEmpty ==
    rsOut.done =>
        /\ ~rsOut.threw
        /\ rsOut.pages # <<>>
        /\ (SelectedPages(rsIn.build, rsIn.range, rsIn.customRange,
                          rsIn.totalPages, rsIn.currentPage) = <<>>
              => rsOut.pages = <<rsIn.currentPage * Scale>>)

\* C2: the products put on the off-screen surface for page p of an export are
\* the elements (p-1)*itemsPerPage .. p*itemsPerPage-1 of the complete product
\* list, also when the one page exported is the current page and it is not
\* page 1.
C2_PageItemsOfCompleteList ==
    InLoop => ghostPageData.products = PageProducts(db, PNum, run.ipp)

\* C3: the step that ends an export without error leaves, in PDF format, a
\* saved document of exactly N pages, the k-th holding the one capture made
\* for the k-th resolved page and nothing else, and no PNG file; in PNG
\* format N files named by the resolved page numbers, pairwise distinct, and
\* no saved PDF.
C3_ArtifactPerPage ==
    [][(run.pc = "capturing" /\ run'.pc = "idle" /\ alerts' = alerts) =>
         LET N == Len(run.pages)
         IN  IF run.format = "pdf"
             THEN /\ pdfSaved'
                  /\ Len(pdf') = N
                  /\ \A k \in 1..N : /\ Len(pdf'[k]) = 1
                                     /\ pdf'[k][1].pNum = run.pages[k]
                  /\ pngFiles' = <<>>
             ELSE /\ ~pdfSaved'
                  /\ Len(pngFiles') = N
                  /\ \A k \in 1..N : pngFiles'[k].name = run.pages[k]
                  /\ \A j, k \in 1..N : j # k => pngFiles'[j].name # pngFiles'[k].name
      ]_vars

\* a PDF of two or more pages has been saved
C3_Witness == pdfSaved /\ Len(pdf) >= 2 /\ alerts = 0

\* C4: once a step of an export has thrown, exactly one error message has
\* been shown for that run, the loop is over (no page is rendered or captured
\* any more) and the document is not saved.
C4_FailureAborts ==
    alerts > 0 => /\ alerts = 1
                  /\ run.pc = "idle"
                  /\ rasterizing = {}
                  /\ ~pdfSaved

\* the capture of a later page failed after an earlier page was drawn
C4_Witness == alerts = 1 /\ pdf # <<>> /\ pdf[1] # <<>>

\* C5: when the full-list request fails the export fails: the step that ends
\* the fetch either continues with the complete list or shows the error and
\* ends the export without giving the surface a page.
C5_FetchFailureIsFatal ==
    [][(run.pc = "fetching" /\ run'.pc # "fetching") =>
         \/ run'.allProducts = db
         \/ (run'.pc = "idle" /\ alerts' = 1 /\ ghostPageData' = ghostPageData)
      ]_vars

\* C6: the pages of an export are taken in strictly ascending order, one at a
\* time: html2canvas works on at most one page, and the surface is given a
\* page's data only when no capture is under way and the captures of all the
\* pages before it have been assembled.
C6_SequentialAscending ==
    [][/\ Cardinality(rasterizing') <= 1
       /\ StrictlyAscending(run'.pages)
       /\ (run.pc # "idle" /\ run'.pc # "idle" => run'.i \in {run.i, run.i + 1})
       /\ (ghostPageData' # ghostPageData =>
             /\ rasterizing' = {}
             /\ run'.pc = "timer"
             /\ ghostPageData'.pageNum = run'.pages[run'.i + 1]
             /\ LET done == IF run'.format = "pdf" THEN Drawn(pdf')
                            ELSE [k \in 1..Len(pngFiles') |-> pngFiles'[k].image]
                IN  /\ Len(done) = run'.i
                    /\ \A k \in 1..Len(done) : done[k].pNum = run'.pages[k])
      ]_vars

\* the second page of an export is being captured
C6_Witness == run.pc = "capturing" /\ run.i >= 1 /\ Len(Drawn(pdf)) = run.i

\* C7: when the rasterization of page p starts, the element captured shows
\* page p's products and page number.
C7_CaptureShowsPage ==
    run.pc = "capturing" =>
        /\ run.shot.shows.pageNum = run.shot.pNum
        /\ run.shot.shows.products = PageProducts(run.allProducts, run.shot.pNum, run.ipp)

\* C8: when the rasterization of a page starts, every image of the element
\* captured has loaded or failed.
C8_ImagesSettled ==
    run.pc = "capturing" => run.shot.unsettled = {}

\* C9: at most one performExport is in flight, and isExporting is set exactly
\* while one is.
C9_SingleExport ==
    /\ running <= 1
    /\ isExporting <=> running = 1
    /\ isExporting <=> run.pc # "idle"

\* an export is in flight, the modal is open after the user's clicks, and the
\* start button is rendered
C9_Witness ==
    isExporting /\ showExportModal /\ ~dirty /\ userActs = MaxUserActs /\ running = 1

\* C10: while an export is in flight the surface lays its page out with the
\* itemsPerPage the export slices by, whatever the user does meanwhile.
C10_SurfaceOwnedByExport ==
    run.pc # "idle" => ghostDom.cols * ghostDom.rows = run.ipp

\* C11: an export that starts asks for the complete product list exactly when
\* its resolved list has more than one page or its one page is not the
\* current page; otherwise no request is made and it works on the products
\* held in the UI state.
C11_FetchIffNeeded ==
    [][running' = running + 1 =>
         IF Len(run'.pages) > 1 \/ run'.pages[1] # currentPage * Scale
         THEN run'.pc = "fetching"
         ELSE run'.pc = "timer" /\ run'.allProducts = products
      ]_vars

\* the complete list is being fetched for one page that is not the current one
C11_Witness ==
    run.pc = "fetching" /\ Len(run.pages) = 1 /\ run.pages[1] # currentPage * Scale

\* the pages the tokens of a request name that lie in 1..totalPages, before
\* any fallback: an integer token names itself, a range token A-B names every
\* integer from A to B
Named(ts, tp) ==
    {n \in 1..tp : \E k \in 1..Len(ts) :
        \/ ts[k].kind = "int" /\ ts[k].n = n
        \/ ts[k].kind = "range" /\ ts[k].a <= n /\ n <= ts[k].b}

ExpectedPages(ts, tp) == SortedSeq({n * Scale : n \in Named(ts, tp)})

WellFormed(t) == (t.kind = "int" /\ t.n >= 0) \/ t.kind = "range"

C13_OutsideSelectsNothing ==
    (/\ rsOut.done
     /\ \A k \in 1..Len(rsIn.tokens) :
           /\ rsIn.tokens[k].kind = "int"
           /\ rsIn.tokens[k].n \notin 1..rsIn.totalPages)
      => rsOut.threw \/ rsOut.pages = <<rsIn.currentPage * Scale>>

\* C14: in custom mode a malformed token contributes no page: the list
\* resolved is the one the well-formed tokens of the text name, or the
\* fallback when they name none.  (A resolution that throws on an empty
\* selection is not counted here: that is C1's subject.)
C14_MalformedSkipped ==
    (/\ rsOut.done
     /\ \A k \in 1..Len(rsIn.tokens) :
           WellFormed(rsIn.tokens[k]) \/ rsIn.tokens[k].kind = "bad"
     /\ \E k \in 1..Len(rsIn.tokens) : rsIn.tokens[k].kind = "bad")
      => LET want == ExpectedPages(rsIn.tokens, rsIn.totalPages)
         IN  IF want # <<>> THEN ~rsOut.threw /\ rsOut.pages = want
             ELSE rsOut.threw \/ rsOut.pages = <<rsIn.currentPage * Scale>>

\* C15: with range 'all' the list resolved is exactly [1, ..., totalPages] for
\* the totalPages the application passes, and a second resolution gives the
\* same list.
C15_AllPages ==
    /\ rsOut.resolves >= 1 =>
          /\ ~rsOut.prop.inf
          /\ ~rsOut.first.threw
          /\ rsOut.first.pages = [k \in 1..rsOut.prop.n |-> k * Scale]
    /\ rsOut.resolves = 2 => rsOut.second = rsOut.first

\* C16: for itemsPerPage >= 1 the totalPages of the pagination label, of the
\* preview's prop and of the listing response are all
\* max(1, ceil(totalCount / itemsPerPage)).
C16_TotalPagesAtLeastOne ==
    (rsOut.listed /\ itemsPerPage >= 1) =>
        LET want == IF totalCount = 0 THEN 1
                    ELSE (totalCount + itemsPerPage - 1) \div itemsPerPage
        IN  /\ rsOut.label = [inf |-> FALSE, n |-> want]
            /\ rsOut.prop = [inf |-> FALSE, n |-> want]
            /\ rsOut.server = want

\* C17: on the page PageContent renders on the export surface the product
\* cards are at most itemsPerPage of that render, and cards plus empty
\* placeholder cells are exactly itemsPerPage.
C17_CardsFillGrid ==
    LET cards == Len(ghostDom.products)
        ipp == ghostDom.cols * ghostDom.rows
    IN  /\ cards <= ipp
        /\ cards + localEmptySlots(ghostDom.products, ipp) = ipp

\* C18: after settings are loaded and merged over DEFAULT_SETTINGS, every
\* field the layout and style code reads is defined.
C18_LayoutFieldsDefined ==
    rsOut.done => \A f \in LayoutFields : f \in DOMAIN rsOut.settings

\* C19: the page size of the rendered grid, the slice size of the export in
\* flight and the limit of every listing request in flight are all
\* gridCols * gridRows of the current settings.
C19_OnePageSize ==
    /\ run.pc # "idle" => run.ipp = itemsPerPage
    /\ \A req \in loads : req.limit = itemsPerPage
    /\ ~dirty => ghostDom.cols * ghostDom.rows = itemsPerPage

\* C20: in PNG format, when the capture of the i-th resolved page fails, the
\* files emitted are exactly those of the pages before it, none is taken
\* back, none is made for the failing page, the loop ends and the error is
\* shown; during an export files are only ever added.
C20_PngPartial ==
    [][/\ (run.pc # "idle" =>
             /\ Len(pngFiles') >= Len(pngFiles)
             /\ SubSeq(pngFiles', 1, Len(pngFiles)) = pngFiles)
       /\ (run.pc = "capturing" /\ run.format = "png" /\ alerts' = alerts + 1 =>
             /\ pngFiles' = pngFiles
             /\ Len(pngFiles') = run.i
             /\ \A k \in 1..run.i : pngFiles'[k].name = run.pages[k]
             /\ alerts' = 1
             /\ run'.pc = "idle")
      ]_vars

\* a PNG export failed after it had emitted a file
C20_Witness == alerts = 1 /\ pngFiles # <<>> /\ run.pc = "idle"

\* C21: when the processing of the k-th page (0-based) of an export of N pages
\* begins, the progress set is round(100*k/N), and it lies within 0..100.
RoundHalfUp(a, b) == (2 * a + b) \div (2 * b)

C21_ProgressIsRounded ==
    /\ rsOut.progress = RoundHalfUp(100 * rsOut.i, rsIn.n)
    /\ rsOut.progress \in 0..100

\* C22: the export corrections reach the cloned copy only: in every state,
\* after any number of exports, the page of the off-screen surface and the
\* element the export holds carry the styles they were rendered with.
C22_LiveSurfaceUntouched ==
    /\ ghostDom.style = "rendered"
    /\ elem # NoElem => elem.shows.style = "rendered"

\* an export whose captures were drawn with the corrections has been saved
C22_Witness ==
    /\ pdfSaved
    /\ Len(pdf) >= 2
    /\ \A k \in 1..Len(pdf) : \A j \in 1..Len(pdf[k]) : pdf[k][j].shows.style = "exportFixes"

\* C23: the geometry of a capture is the one a run at any other zoom in
\* 0.3..2 makes with the same build and quality; the surface and the capture
\* have the A4 pixel size, and no zoom transform lies on the captured element.
C23_GeometryIgnoresZoom ==
    rsOut.captured =>
        /\ \A z \in MinZoom..MaxZoom :
              rsOut.geometry = CaptureGeometry(rsIn.build, rsIn.quality,
                                               QueryGhostPage(rsIn.build, z))
        /\ rsOut.geometry.surface = [width |-> A4WidthPx, height |-> A4HeightPx]
        /\ rsOut.geometry.width = A4WidthPx
        /\ rsOut.geometry.height = A4HeightPx
        /\ rsOut.geometry.transforms = <<>>

\* a capture was made with the preview zoomed to its largest
C23_Witness == rsOut.captured /\ rsOut.zoom = MaxZoom

\* C24: every export that has started ends, with its artifact saved or its
\* error shown, and until then its steps follow one another in the order
\* resolve, optional full-list fetch, then for each page render, wait for the
\* images, capture, assemble, and after the last page finalize.
PcOrder ==
    {<<"idle", "fetching">>, <<"idle", "timer">>, <<"fetching", "timer">>,
     <<"timer", "images">>, <<"timer", "capturing">>, <<"images", "capturing">>,
     <<"capturing", "timer">>, <<"capturing", "idle">>}

Ended == run.pc = "idle" /\ (alerts = 1 \/ pdfSaved \/ pngFiles # <<>>)

C25_PagesAreIntegersInRange ==
    (rsOut.done /\ ~rsOut.threw /\ rsIn.currentPage <= rsIn.totalPages) =>
        \A k \in 1..Len(rsOut.pages) :
            /\ rsOut.pages[k] % Scale = 0
            /\ Scale <= rsOut.pages[k]
            /\ rsOut.pages[k] <= rsIn.totalPages * Scale

\* C26: after any edits of the grid fields followed by save, itemsPerPage is
\* at least 1, and so the totalPages the application computes is a finite
\* number that is at least 1.
C26_ItemsPerPagePositive ==
    /\ itemsPerPage >= 1
    /\ ~AppTotalPages(totalCount, itemsPerPage).inf
    /\ AppTotalPages(totalCount, itemsPerPage).n >= 1

\* C27: isExporting is set while an export runs; the step that ends an export,
\* with its artifact or with an error at any point, leaves isExporting false,
\* the export modal closed and exportProgress 0; and a step that neither
\* starts nor ends an export changes neither isExporting nor, while none
\* runs, exportProgress.  (The container of the off-screen surface is
\* rendered unconditionally, so ghostRef.current is set at every click.)
C27_BackToIdle ==
    [][/\ (run.pc # "idle" => isExporting)
       /\ ((run.pc # "idle" /\ run'.pc = "idle") \/ alerts' > alerts =>
             ~isExporting' /\ ~showExportModal' /\ exportProgress' = 0)
       /\ ((run.pc = "idle") = (run'.pc = "idle") /\ alerts' = alerts =>
             /\ isExporting' = isExporting
             /\ run.pc = "idle" => exportProgress' = exportProgress)
      ]_vars

\* a PNG export of two pages has ended and left the component idle
C27_Witness ==
    /\ run.pc = "idle"
    /\ alerts = 0
    /\ Len(pngFiles) = 2
    /\ ~isExporting /\ ~showExportModal /\ exportProgress = 0

\* C28: once every loadProducts request has been answered and rendered, the
\* products and the count displayed are those of the listing for the current
\* page and page size.
Settled == loads = {} /\ ~dirty /\ effDeps = <<currentPage, itemsPerPage>>

C28_LatestResponseShown ==
    Settled =>
        /\ products = ListProducts(db, currentPage, itemsPerPage).products
        /\ totalCount = ListProducts(db, currentPage, itemsPerPage).totalCount

\* the page count the App shows: Math.ceil(totalCount / itemsPerPage) || 1
ShownTotalPages == AppTotalPages(totalCount, itemsPerPage).n

\* C29: once no listing request or response is on its way and the last update
\* is rendered, the current page lies between 1 and the number of pages the
\* App shows, max(1, ceil(totalCount / itemsPerPage)).
C29_CurrentPageInRange ==
    (Settled /\ rsIn = {}) => 1 <= currentPage /\ currentPage <= ShownTotalPages

\* the rows of the request the import has to insert: those with an id and a
\* description whose id is neither in the table nor earlier in the batch
Importable(table, rows) ==
    {i \in 1..Len(rows) :
        /\ ~Lacking(rows[i])
        /\ rows[i].id \notin Range(table)
        /\ \A j \in 1..(i - 1) : Lacking(rows[j]) \/ rows[j].id # rows[i].id}

\* C30: the table changes only at the commit; a 200 response carries
\* imported + skipped = the number of rows and imported = the number of rows
\* inserted, which are the rows with an id and a description whose id was
\* neither stored nor earlier in the batch; and once the handler has ended
\* after a failed statement, the table is the one before the request and the
\* response is a 500.
C30_ImportAllOrNothing ==
    /\ rsOut.pc # "done" => db = rsOut.before
    /\ rsOut.status = 200 =>
           /\ rsOut.imported + rsOut.skipped = Len(rsIn)
           /\ rsOut.imported = Len(db) - Len(rsOut.before)
           /\ rsOut.imported = Cardinality(Importable(rsOut.before, rsIn))
           /\ Range(db) = Range(rsOut.before)
                              \cup {rsIn[i].id : i \in Importable(rsOut.before, rsIn)}
    /\ (rsOut.pc = "done" /\ rsOut.failed) => db = rsOut.before /\ rsOut.status = 500

====
